---- MODULE Spec2Model ----
(***************************************************************************)
(* Model of src/utilities/subScan.ts: the page fetcher getEvents, the      *)
(* parameter flattening parseParams and the range/page walker              *)
(* subScanEventGenerator, together with their environment: the chain node  *)
(* (height), the SubScan provider (list and params endpoints), the sleep   *)
(* timer, the optional transform and the consumer that pulls the items.    *)
(***************************************************************************)
EXTENDS Integers, Sequences, FiniteSets, TLC

(* ---------------- program constants (subScan.ts:11-13) ---------------- *)
SUBSCAN_MAX_ROWS == 100
QUERY_INTERVAL_MS == 1000
BLOCK_RANGE_SIZE == 100000

(* ---------------- bounds of the model ---------------- *)
\* start blocks and chain heights are multiples of half a block range
BlockStep == BLOCK_RANGE_SIZE \div 2
MaxStartSteps == 2
MaxHeightSteps == 3
\* event counts of a block range are multiples of half a page
CountStep == SUBSCAN_MAX_ROWS \div 2
MaxCountSteps == 3
\* row i of a block range sits in block fromBlock + i * EventGap
EventGap == 400
\* the entries of a params response that may be defective
MaxBadPos == 2
\* the longest parameter list handed to parseParams on its own
MaxParams == 3

StartBlocks == {s * BlockStep : s \in 0..MaxStartSteps}
Heights == {h * BlockStep : h \in 0..MaxHeightSteps}
Counts == {c * CountStep : c \in 0..MaxCountSteps}
Networks == {"NONE", "kilt"}
Transforms == {"none", "dropFirstReverse"}
DefectKinds == {"absent", "wrongIndex", "empty", "truncated"}
\* the parameter lists handed to parseParams on its own: every list of up to
\* MaxParams parameters over two type tags and two values
ParamTags == {"a", "b"}
ParamValues == {1, 2}
ParamLists ==
    UNION {[1..n -> [type_name : ParamTags, value : ParamValues]] : n \in 0..MaxParams}

VARIABLES
    network,          \* configuration.subscan.network
    startBlock,       \* argument startBlock
    transform,        \* argument transform ("none": not supplied)
    chainHeight,      \* the node's current block number
    provCount,        \* the provider's current event count of the range walked
    changed,          \* the provider's data changed between a probe and a page
    pc,               \* position of the generator
    http,             \* request of getEvents in flight: "none", "list", "params"
    currentBlock,     \* local currentBlock of the generator (-1: not read)
    fromBlock,        \* loop variable fromBlock
    count,            \* local count of the range
    pages,            \* local pages of the range
    page,             \* loop variable page
    call,             \* arguments of the getEvents call in progress
    listed,           \* getEvents: events of the list response (while it runs)
    listCount,        \* getEvents: count of the list response
    eventsParameters, \* getEvents: data of the params response it failed on
    events,           \* the page being yielded (after the transform)
    idx,              \* position in events of the item last yielded
    error,            \* the error the sequence ended with
    pulls,            \* the consumer's calls of next() so far
    trace             \* history: the calls, waits and yields in order

vars == <<network, startBlock, transform, chainHeight, provCount, changed, pc,
          http, currentBlock, fromBlock, count, pages, page, call, listed,
          listCount, eventsParameters, events, idx, error, pulls, trace>>

env == <<network, startBlock, transform>>

(* ---------------- helpers ---------------- *)
Min(S) == CHOOSE x \in S : \A y \in S : x <= y
Max(S) == CHOOSE x \in S : \A y \in S : x >= y
Reverse(s) == [j \in 1..Len(s) |-> s[Len(s) + 1 - j]]
NoError == [kind |-> "none", index |-> <<>>]
NoCall == [fromBlock |-> 0, page |-> 0, row |-> 0]

(* ---------------- the provider (environment) ---------------- *)
\* Row i (from 0, ascending) of the events of the range starting at fb.
Row(fb, i) ==
    [event_index |-> <<fb + i * EventGap, i % 2>>,
     block_timestamp |-> (fb + i * EventGap) * 6,
     extrinsic_hash |-> (fb + i * EventGap) * 10 + (i % 2)]

\* The rows the chain can hold so far in the range starting at fb.
MaxCountAt(fb, height) ==
    IF height < fb THEN 0 ELSE ((height - fb) \div EventGap) + 1

\* The list endpoint: page pg of size rw of a range that holds cnt events.
ListRows(fb, pg, rw, cnt) ==
    LET first == pg * rw
        last == IF cnt < (pg + 1) * rw THEN cnt ELSE (pg + 1) * rw
    IN  IF last <= first THEN <<>>
        ELSE [j \in 1..(last - first) |-> Row(fb, first + j - 1)]

\* The parameters the chain holds for an event index: one parameter, or two
\* of the same type tag.
ProviderParams(x) ==
    IF x[2] % 2 = 0
    THEN <<[type_name |-> "CTypeHash", value |-> x[1] * 10 + x[2]]>>
    ELSE <<[type_name |-> "AccountId", value |-> 0],
           [type_name |-> "AccountId", value |-> x[1] * 10 + x[2]]>>

\* The defects a params response may have: none (pos = 0), or entry pos is left
\* out (absent), carries another index (wrongIndex), has no parameters (empty),
\* or the response ends before it (truncated).
DefectsOf(n) ==
    {[pos |-> 0, kind |-> "none"]} \cup
    [pos : 1..(IF n < MaxBadPos THEN n ELSE MaxBadPos), kind : DefectKinds]

\* The params endpoint: one entry per index asked for, but for the defect d.
ParamsData(indices, d) ==
    LET kept == SelectSeq([j \in 1..Len(indices) |-> j],
                          LAMBDA j : ~(\/ d.kind = "absent" /\ j = d.pos
                                       \/ d.kind = "truncated" /\ j >= d.pos))
        entry(j) ==
            IF d.kind = "wrongIndex" /\ j = d.pos
            THEN [event_index |-> <<indices[j][1], indices[j][2] + 2>>,
                  params |-> ProviderParams(<<indices[j][1], indices[j][2] + 2>>)]
            ELSE IF d.kind = "empty" /\ j = d.pos
            THEN [event_index |-> indices[j], params |-> <<>>]
            ELSE [event_index |-> indices[j], params |-> ProviderParams(indices[j])]
    IN  [k \in 1..Len(kept) |-> entry(kept[k])]

(* ---------------- getEvents (subScan.ts:63-138) ---------------- *)
\* FindParams as it would be if the entries were matched by block number alone.
FindParamsByBlock(data, event_index) ==
    LET hits == {k \in 1..Len(data) : data[k].event_index[1] = event_index[1]}
    IN  IF hits = {} THEN [found |-> FALSE, params |-> <<>>]
        ELSE [found |-> TRUE, params |-> data[Min(hits)].params]

\* eventsParameters.find(detailed => detailed.event_index === event_index)?.params
FindParams(data, event_index) ==
    LET hits == {k \in 1..Len(data) : data[k].event_index = event_index}
    IN  IF hits = {} THEN [found |-> FALSE, params |-> <<>>]
        ELSE [found |-> TRUE, params |-> data[Min(hits)].params]

\* ParamsMissing as it would be without the test for an empty list.
ParamsMissingNoEmpty(data, event_index) ==
    ~FindParams(data, event_index).found

\* !params || params.length === 0
ParamsMissing(data, event_index) ==
    LET p == FindParams(data, event_index)
    IN  ~p.found \/ Len(p.params) = 0

\* ParsedEvent as it would be with the block taken from the wrong component
\* of the index.
ParsedEventOrdinal(data, ev) ==
    [block |-> ev.event_index[2],
     blockTimestampMs |-> ev.block_timestamp * 1000,
     params |-> FindParams(data, ev.event_index).params,
     extrinsicHash |-> ev.extrinsic_hash]

\* One element of events.map(...): the ParsedEvent of an event summary.
ParsedEvent(data, ev) ==
    [block |-> ev.event_index[1],
     blockTimestampMs |-> ev.block_timestamp * 1000,
     params |-> FindParams(data, ev.event_index).params,
     extrinsicHash |-> ev.extrinsic_hash]

\* events.map(...) with its throw: the first event without parameters fails
\* the whole call.
ParseEvents(evs, data) ==
    LET bad == {j \in 1..Len(evs) : ParamsMissing(data, evs[j].event_index)}
    IN  IF bad # {}
        THEN [ok |-> FALSE, index |-> evs[Min(bad)].event_index, events |-> <<>>]
        ELSE [ok |-> TRUE, index |-> <<>>,
              events |-> [j \in 1..Len(evs) |-> ParsedEvent(data, evs[j])]]

(* ---------------- parseParams (subScan.ts:153-160) ---------------- *)
\* ParsedParams as it would be if the first parameter of a type tag won.
ParsedParamsFirst(params) ==
    [t \in {params[k].type_name : k \in 1..Len(params)} |->
        params[Min({k \in 1..Len(params) : params[k].type_name = t})].value]

\* Object.fromEntries(params.map(param => [param.type_name, param.value]))
ParsedParams(params) ==
    [t \in {params[k].type_name : k \in 1..Len(params)} |->
        params[Max({k \in 1..Len(params) : params[k].type_name = t})].value]

parseParams(event) ==
    [block |-> event.block,
     blockTimestampMs |-> event.blockTimestampMs,
     params |-> event.params,
     extrinsicHash |-> event.extrinsicHash,
     parsedParams |-> ParsedParams(event.params)]

(* ---------------- the transform (environment) ---------------- *)
\* A transform that filters and reorders: it drops the first event of the page
\* and returns the others newest first.
ApplyTransform(t, evs) ==
    IF t = "dropFirstReverse"
    THEN (IF evs = <<>> THEN <<>> ELSE Reverse(Tail(evs)))
    ELSE evs

(* ---------------- subScanEventGenerator (subScan.ts:162-224) ---------------- *)
\* The generator's own state as one record, so that the steps of its control
\* flow compose.
Cur ==
    [pc |-> pc, http |-> http, currentBlock |-> currentBlock,
     fromBlock |-> fromBlock, count |-> count, pages |-> pages, page |-> page,
     call |-> call, events |-> events, idx |-> idx, trace |-> trace]

Set(w) ==
    /\ pc' = w.pc
    /\ http' = w.http
    /\ currentBlock' = w.currentBlock
    /\ fromBlock' = w.fromBlock
    /\ count' = w.count
    /\ pages' = w.pages
    /\ page' = w.page
    /\ call' = w.call
    /\ events' = w.events
    /\ idx' = w.idx
    /\ trace' = w.trace

\* Pages as it would be if the last, partly filled page were left out.
PagesFullOnly(cnt) == (cnt \div SUBSCAN_MAX_ROWS) - 1

\* Pages as it would be with the count divided and rounded down.
PagesFloor(cnt) == cnt \div SUBSCAN_MAX_ROWS

\* Math.ceil(count / SUBSCAN_MAX_ROWS) - 1
Pages(cnt) ==
    (IF cnt % SUBSCAN_MAX_ROWS = 0
     THEN cnt \div SUBSCAN_MAX_ROWS
     ELSE cnt \div SUBSCAN_MAX_ROWS + 1) - 1

\* getEvents up to its first await: the list request goes out.
IssueList(w, fb, pg, rw, at) ==
    [w EXCEPT !.pc = at, !.http = "list",
              !.call = [fromBlock |-> fb, page |-> pg, row |-> rw],
              !.trace = Append(@, [op |-> "list", fromBlock |-> fb,
                                   toBlock |-> fb + BLOCK_RANGE_SIZE,
                                   page |-> pg, row |-> rw])]

\* await sleep(QUERY_INTERVAL_MS)
Sleep(w) ==
    [w EXCEPT !.pc = "WaitingInterval",
              !.trace = Append(@, [op |-> "sleep", ms |-> QUERY_INTERVAL_MS])]

\* LoopRange as it would be with <= for < in the test of the loop.
LoopRangeInclusive(w, fb) ==
    IF fb <= w.currentBlock
    THEN IssueList([w EXCEPT !.fromBlock = fb], fb, 0, 1, "AwaitingCount")
    ELSE [w EXCEPT !.fromBlock = fb, !.pc = "Done"]

\* LoopRange as it would be if the test of the loop read the height anew.
LoopRangeLive(w, fb) ==
    IF fb < chainHeight
    THEN IssueList([w EXCEPT !.fromBlock = fb], fb, 0, 1, "AwaitingCount")
    ELSE [w EXCEPT !.fromBlock = fb, !.pc = "Done"]

\* The outer for: its test, and the count probe of the range.
LoopRange(w, fb) ==
    IF fb < w.currentBlock
    THEN IssueList([w EXCEPT !.fromBlock = fb], fb, 0, 1, "AwaitingCount")
    ELSE [w EXCEPT !.fromBlock = fb, !.pc = "Done"]

\* The inner for: its test, and the fetch of the page.
LoopPage(w, pg) ==
    IF pg >= 0
    THEN IssueList([w EXCEPT !.page = pg], w.fromBlock, pg, SUBSCAN_MAX_ROWS,
                   "AwaitingPage")
    ELSE LoopRange([w EXCEPT !.page = pg], w.fromBlock + BLOCK_RANGE_SIZE)

\* Iterate as it would be without the sleep after the last event of the page.
IterateNoSleep(w, i) ==
    IF i <= Len(w.events)
    THEN [w EXCEPT !.pc = "Yielding", !.idx = i,
                   !.trace = Append(@, [op |-> "yield",
                                        value |-> parseParams(w.events[i])])]
    ELSE LoopPage([w EXCEPT !.idx = 0], w.page - 1)

\* Iterate as it would be if the page were walked from its last event to its
\* first.
IterateBackwards(w, i) ==
    IF i <= Len(w.events)
    THEN [w EXCEPT !.pc = "Yielding", !.idx = i,
                   !.trace = Append(@, [op |-> "yield",
                                        value |-> parseParams(
                                            w.events[Len(w.events) + 1 - i])])]
    ELSE Sleep([w EXCEPT !.idx = 0])

\* for (const event of ...) { yield parseParams(event) }, then the sleep.
Iterate(w, i) ==
    IF i <= Len(w.events)
    THEN [w EXCEPT !.pc = "Yielding", !.idx = i,
                   !.trace = Append(@, [op |-> "yield",
                                        value |-> parseParams(w.events[i])])]
    ELSE Sleep([w EXCEPT !.idx = 0])

\* After the count probe returned.
AfterProbe(w, cnt) ==
    IF cnt = 0
    THEN Sleep([w EXCEPT !.count = cnt])
    ELSE LoopPage([w EXCEPT !.count = cnt, !.pages = Pages(cnt)], Pages(cnt))

\* After the fetch of a page returned.
AfterPage(w, hasEvents, evs) ==
    IF ~hasEvents
    THEN LoopPage(w, w.page - 1)
    ELSE IF transform # "none"
    THEN [w EXCEPT !.pc = "AwaitingTransform", !.events = evs,
                   !.trace = Append(@, [op |-> "transform", n |-> Len(evs)])]
    ELSE Iterate([w EXCEPT !.events = evs], 1)

\* GetEventsReturn as it would be if the events of the probe were handed on
\* like those of a page.
GetEventsReturnProbeYields(w, cnt, hasEvents, evs) ==
    IF w.pc = "AwaitingCount" /\ ~hasEvents
    THEN AfterProbe([w EXCEPT !.http = "none"], cnt)
    ELSE AfterPage([w EXCEPT !.http = "none", !.count = cnt], hasEvents, evs)

\* getEvents returns to the walker.
GetEventsReturn(w, cnt, hasEvents, evs) ==
    IF w.pc = "AwaitingCount"
    THEN AfterProbe([w EXCEPT !.http = "none"], cnt)
    ELSE AfterPage([w EXCEPT !.http = "none"], hasEvents, evs)

\* AfterSleep as it would be if the walk went on to the next range after the
\* first page fetched.
AfterSleepNextRange(w) ==
    LoopRange(w, w.fromBlock + BLOCK_RANGE_SIZE)

\* AfterSleep as it would be if the inner loop did not count its page down.
AfterSleepSamePage(w) ==
    IF w.count = 0
    THEN LoopRange(w, w.fromBlock + BLOCK_RANGE_SIZE)
    ELSE LoopPage(w, w.page)

\* After a sleep: the end of the body of one of the two loops.
AfterSleep(w) ==
    IF w.count = 0
    THEN LoopRange(w, w.fromBlock + BLOCK_RANGE_SIZE)
    ELSE LoopPage(w, w.page - 1)

Fail(w, e) ==
    /\ Set([w EXCEPT !.pc = "Failed", !.http = "none"])
    /\ error' = e

(* ---------------- initial state ---------------- *)
Init ==
    /\ network \in Networks
    /\ startBlock \in StartBlocks
    /\ transform \in Transforms
    /\ chainHeight \in Heights
    /\ provCount = 0
    /\ changed = FALSE
    /\ pc = "Created"
    /\ http = "none"
    /\ currentBlock = -1
    /\ fromBlock = 0
    /\ count = 0
    /\ pages = 0
    /\ page = 0
    /\ call = NoCall
    /\ listed = <<>>
    /\ listCount = 0
    /\ eventsParameters = <<>>
    /\ events = <<>>
    /\ idx = 0
    /\ error = NoError
    /\ pulls = 0
    /\ trace = <<>>

(* ---------------- actions ---------------- *)
\* Start as it would be without the test for the disabled explorer.
StartIgnoresNetwork ==
    /\ pc = "Created"
    /\ Set([Cur EXCEPT !.pc = "AwaitingHeight",
                       !.trace = Append(@, [op |-> "height"])])
    /\ pulls' = pulls + 1
    /\ UNCHANGED <<env, chainHeight, provCount, changed, listed, listCount,
                   eventsParameters, error>>

\* The consumer's first pull: the generator runs to its first await.
Start ==
    /\ pc = "Created"
    /\ Set(IF network = "NONE"
           THEN [Cur EXCEPT !.pc = "Done"]
           ELSE [Cur EXCEPT !.pc = "AwaitingHeight",
                            !.trace = Append(@, [op |-> "height"])])
    /\ pulls' = pulls + 1
    /\ UNCHANGED <<env, chainHeight, provCount, changed, listed, listCount,
                   eventsParameters, error>>

\* api.query.system.number() resolves: the snapshot, then the first range.
HeightResponse ==
    /\ pc = "AwaitingHeight"
    /\ Set(LoopRange([Cur EXCEPT !.currentBlock = chainHeight,
                                 !.trace = Append(@, [op |-> "heightResult",
                                                      value |-> chainHeight])],
                     startBlock))
    /\ UNCHANGED <<env, chainHeight, provCount, changed, listed, listCount,
                   eventsParameters, error, pulls>>

HeightFail ==
    /\ pc = "AwaitingHeight"
    /\ Fail([Cur EXCEPT !.trace = Append(@, [op |-> "error", at |-> "height"])],
            [kind |-> "node", index |-> <<>>])
    /\ UNCHANGED <<env, chainHeight, provCount, changed, listed, listCount,
                   eventsParameters, pulls>>

\* The list endpoint answers; getEvents returns the count alone or asks for
\* the parameters.
ListResponse ==
    /\ http = "list"
    /\ \E c \in Counts, isNull \in BOOLEAN :
        /\ IF pc = "AwaitingCount"
           THEN c <= MaxCountAt(call.fromBlock, chainHeight)
           ELSE c = provCount
        /\ provCount' = c
        /\ LET rows == ListRows(call.fromBlock, call.page, call.row, c)
               got == [Cur EXCEPT !.trace =
                          Append(@, [op |-> "listResult", count |-> c,
                                     rows |-> IF isNull THEN -1 ELSE Len(rows)])]
           IN  /\ isNull => rows = <<>>
               /\ listCount' = c
               /\ listed' = rows
               /\ IF isNull
                  THEN Set(GetEventsReturn(got, c, FALSE, <<>>))
                  ELSE Set([got EXCEPT !.http = "params",
                              !.trace = Append(@, [op |-> "params",
                                  event_index |->
                                      [j \in 1..Len(rows) |-> rows[j].event_index]])])
    /\ UNCHANGED <<env, chainHeight, changed, eventsParameters, error, pulls>>

\* ListFail as it would be if a failed list request were sent again.
ListFailRetry ==
    /\ http = "list"
    /\ Set(IssueList([Cur EXCEPT !.trace = Append(@, [op |-> "error",
                                                      at |-> "list"])],
                     call.fromBlock, call.page, call.row, pc))
    /\ UNCHANGED <<env, chainHeight, provCount, changed, listed, listCount,
                   eventsParameters, error, pulls>>

\* The list request fails: the error leaves getEvents and the generator.
ListFail ==
    /\ http = "list"
    /\ Fail([Cur EXCEPT !.trace = Append(@, [op |-> "error", at |-> "list"])],
            [kind |-> "http", index |-> <<>>])
    /\ UNCHANGED <<env, chainHeight, provCount, changed, listed, listCount,
                   eventsParameters, pulls>>

\* The params endpoint answers; getEvents correlates and returns or throws.
ParamsResponse ==
    /\ http = "params"
    /\ \E d \in DefectsOf(Len(listed)) :
        LET data == ParamsData([j \in 1..Len(listed) |-> listed[j].event_index], d)
            r == ParseEvents(listed, data)
            got == [Cur EXCEPT !.trace = Append(@, [op |-> "paramsResult",
                                                    defect |-> d])]
        IN  IF r.ok
            THEN /\ Set(GetEventsReturn(got, listCount, TRUE, r.events))
                 /\ listed' = <<>>
                 /\ eventsParameters' = <<>>
                 /\ error' = error
            ELSE /\ Fail(got, [kind |-> "missingParams", index |-> r.index])
                 /\ listed' = listed
                 /\ eventsParameters' = data
    /\ UNCHANGED <<env, chainHeight, provCount, changed, listCount, pulls>>

ParamsFail ==
    /\ http = "params"
    /\ Fail([Cur EXCEPT !.trace = Append(@, [op |-> "error", at |-> "params"])],
            [kind |-> "http", index |-> <<>>])
    /\ UNCHANGED <<env, chainHeight, provCount, changed, listed, listCount,
                   eventsParameters, pulls>>

\* The transform resolves: its result is the page to yield.
TransformResponse ==
    /\ pc = "AwaitingTransform"
    /\ Set(Iterate([Cur EXCEPT !.events = ApplyTransform(transform, events)], 1))
    /\ UNCHANGED <<env, chainHeight, provCount, changed, listed, listCount,
                   eventsParameters, error, pulls>>

TransformFail ==
    /\ pc = "AwaitingTransform"
    /\ Fail([Cur EXCEPT !.trace = Append(@, [op |-> "error", at |-> "transform"])],
            [kind |-> "transform", index |-> <<>>])
    /\ UNCHANGED <<env, chainHeight, provCount, changed, listed, listCount,
                   eventsParameters, pulls>>

\* Resume as it would be if the generator went on by itself after a yield,
\* without a pull of the consumer.
ResumeUnpulled ==
    /\ pc = "Yielding"
    /\ Set(Iterate(Cur, idx + 1))
    /\ pulls' = pulls
    /\ UNCHANGED <<env, chainHeight, provCount, changed, listed, listCount,
                   eventsParameters, error>>

\* The consumer pulls the next item: the generator resumes after its yield.
Resume ==
    /\ pc = "Yielding"
    /\ Set(Iterate(Cur, idx + 1))
    /\ pulls' = pulls + 1
    /\ UNCHANGED <<env, chainHeight, provCount, changed, listed, listCount,
                   eventsParameters, error>>

\* The timer of sleep fires.
SleepDone ==
    /\ pc = "WaitingInterval"
    /\ Set(AfterSleep(Cur))
    /\ UNCHANGED <<env, chainHeight, provCount, changed, listed, listCount,
                   eventsParameters, error, pulls>>

\* The chain produces blocks during the walk. The height is observed when the
\* node or the list endpoint answers, so growth is taken just before that.
NewBlock ==
    /\ pc = "AwaitingHeight" \/ http = "list"
    /\ chainHeight + BlockStep <= MaxHeightSteps * BlockStep
    /\ chainHeight' = chainHeight + BlockStep
    /\ UNCHANGED <<env, provCount, changed, pc, http, currentBlock, fromBlock,
                   count, pages, page, call, listed, listCount, eventsParameters,
                   events, idx, error, pulls, trace>>

\* The provider's data of the range changed between the probe and a page:
\* events are added to it or dropped from it.
ProviderChange ==
    /\ pc = "AwaitingPage"
    /\ http = "list"
    /\ ~changed
    /\ \E c \in Counts \cap {provCount - CountStep, provCount + CountStep} :
        /\ c <= MaxCountAt(fromBlock, chainHeight)
        /\ provCount' = c
    /\ changed' = TRUE
    /\ UNCHANGED <<env, chainHeight, pc, http, currentBlock, fromBlock, count,
                   pages, page, call, listed, listCount, eventsParameters, events,
                   idx, error, pulls, trace>>

Next ==
    \/ Start
    \/ HeightResponse
    \/ HeightFail
    \/ ListResponse
    \/ ListFail
    \/ ParamsResponse
    \/ ParamsFail
    \/ TransformResponse
    \/ TransformFail
    \/ Resume
    \/ SleepDone
    \/ NewBlock
    \/ ProviderChange

Spec == Init /\ [][Next]_vars

\* The steps by which a call, a wait or a pull returns: all but those of the
\* chain and of the provider's data.
Progress ==
    \/ Start
    \/ HeightFail
    \/ HeightResponse
    \/ ListFail
    \/ ListResponse
    \/ ParamsFail
    \/ ParamsResponse
    \/ TransformFail
    \/ TransformResponse
    \/ Resume
    \/ SleepDone

\* The walk with a node, a provider, a transform, a timer and a consumer that
\* answer in the end: a pending call, wait or pull does not stay pending.
SpecLive == Init /\ [][Next]_vars /\ WF_vars(Progress)

(* ---------------- parseParams on its own ---------------- *)
\* parseParams applied to one event with any of the parameter lists, and then
\* to its own result. The event is held in events, the results in trace.
InitParse ==
    /\ network = "kilt"
    /\ startBlock = 0
    /\ transform = "none"
    /\ chainHeight = 0
    /\ provCount = 0
    /\ changed = FALSE
    /\ pc = "Flatten"
    /\ http = "none"
    /\ currentBlock = -1
    /\ fromBlock = 0
    /\ count = 0
    /\ pages = 0
    /\ page = 0
    /\ call = NoCall
    /\ listed = <<>>
    /\ listCount = 0
    /\ eventsParameters = <<>>
    /\ events \in {<<[block |-> EventGap,
                      blockTimestampMs |-> EventGap * 6000,
                      params |-> p,
                      extrinsicHash |-> EventGap * 10]>> : p \in ParamLists}
    /\ idx = 0
    /\ error = NoError
    /\ pulls = 0
    /\ trace = <<>>

\* parseParams(event)
Flatten ==
    /\ pc = "Flatten"
    /\ pc' = "Flattened"
    /\ trace' = <<[op |-> "yield", value |-> parseParams(events[1])]>>
    /\ UNCHANGED <<env, chainHeight, provCount, changed, http, currentBlock,
                   fromBlock, count, pages, page, call, listed, listCount,
                   eventsParameters, events, idx, error, pulls>>

\* parseParams(parseParams(event)): the spread copies the fields of the
\* flattened event and parsedParams is computed anew from its params.
Reflatten ==
    /\ pc = "Flattened"
    /\ pc' = "Reflattened"
    /\ trace' = Append(trace, [op |-> "yield", value |-> parseParams(trace[1].value)])
    /\ UNCHANGED <<env, chainHeight, provCount, changed, http, currentBlock,
                   fromBlock, count, pages, page, call, listed, listCount,
                   eventsParameters, events, idx, error, pulls>>

NextParse ==
    \/ Flatten
    \/ Reflatten

SpecParse == InitParse /\ [][NextParse]_vars

(* ---------------- reading the history ---------------- *)
\* The positions of the getEvents calls of the walker (their list requests).
ListPos == SelectSeq([i \in 1..Len(trace) |-> i], LAMBDA i : trace[i].op = "list")

\* The part of the history that belongs to the k-th call: from its list
\* request up to the next call, or up to now.
SegEnd(lp, k) == IF k < Len(lp) THEN lp[k + 1] - 1 ELSE Len(trace)
SegOps(lp, k, op) == {i \in (lp[k] + 1)..SegEnd(lp, k) : trace[i].op = op}
CallOf(lp, k) == trace[lp[k]]
Answered(lp, k) ==
    lp[k] + 1 <= Len(trace) /\ trace[lp[k] + 1].op = "listResult"
ResultOf(lp, k) == trace[lp[k] + 1]
IsProbe(e) == e.page = 0 /\ e.row = 1
IsPageFetch(e) == e.row = SUBSCAN_MAX_ROWS
Probes == SelectSeq(trace, LAMBDA e : e.op = "list" /\ IsProbe(e))
Yields == SelectSeq(trace, LAMBDA e : e.op = "yield")
HasOp(op) == \E i \in 1..Len(trace) : trace[i].op = op
ExpectedPages(c) == ((c + SUBSCAN_MAX_ROWS - 1) \div SUBSCAN_MAX_ROWS) - 1

(* ---------------- C1 ---------------- *)
\* C1: after a count probe that reports a nonzero count C the walker fetches
\* the full pages ceil(C/100) - 1, ..., 1, 0 of that range, in this descending
\* order and each once: the call after the probe is the fetch of page
\* ceil(C/100) - 1, the call after the fetch of a page p > 0 is the fetch of
\* page p - 1 of the same range, the call after the fetch of page 0 is the
\* probe of the next range, and a walk that ends has fetched page 0 last.
C1_PagesDescending ==
    LET lp == ListPos
    IN
        /\ \A k \in 1..(Len(lp) - 1) :
            LET a == CallOf(lp, k)
                b == CallOf(lp, k + 1)
            IN  /\ Answered(lp, k)
                /\ (IsProbe(a) /\ ResultOf(lp, k).count > 0) =>
                      /\ IsPageFetch(b)
                      /\ b.fromBlock = a.fromBlock
                      /\ b.page = ExpectedPages(ResultOf(lp, k).count)
                /\ (IsPageFetch(a) /\ a.page > 0) =>
                      /\ IsPageFetch(b)
                      /\ b.fromBlock = a.fromBlock
                      /\ b.page = a.page - 1
                /\ (IsPageFetch(a) /\ a.page = 0) => IsProbe(b)
        /\ (pc = "Done" /\ Len(lp) > 0) =>
            LET a == CallOf(lp, Len(lp))
            IN  IF IsProbe(a) THEN ResultOf(lp, Len(lp)).count = 0 ELSE a.page = 0

\* A finished walk over a range of 150 events: the pages 1 and 0 were fetched
\* in this order, page 1 held 50 events and page 0 held 100.
C1_Witness ==
    LET lp == ListPos
    IN
        /\ pc = "Done"
        /\ ~changed
        /\ \E k \in 1..(Len(lp) - 2) :
            /\ IsProbe(CallOf(lp, k))
            /\ ResultOf(lp, k).count = 3 * CountStep
            /\ CallOf(lp, k + 1).page = 1
            /\ ResultOf(lp, k + 1).rows = CountStep
            /\ CallOf(lp, k + 2).page = 0
            /\ ResultOf(lp, k + 2).rows = SUBSCAN_MAX_ROWS

(* ---------------- C2 ---------------- *)
\* C2: for a range whose count probe returns count zero no params request is
\* issued, nothing is yielded, no page is fetched, and the walk moves to the
\* next range after exactly one wait.
C2_ZeroCountRange ==
    LET lp == ListPos
    IN
        \A k \in 1..Len(lp) :
            (IsProbe(CallOf(lp, k)) /\ Answered(lp, k) /\ ResultOf(lp, k).count = 0) =>
                /\ SegOps(lp, k, "params") = {}
                /\ SegOps(lp, k, "yield") = {}
                /\ Cardinality(SegOps(lp, k, "sleep")) <= 1
                /\ k < Len(lp) =>
                    /\ IsProbe(CallOf(lp, k + 1))
                    /\ CallOf(lp, k + 1).fromBlock = CallOf(lp, k).fromBlock + BLOCK_RANGE_SIZE
                    /\ Cardinality(SegOps(lp, k, "sleep")) = 1

(* ---------------- C3 ---------------- *)
\* C3: with the explorer disabled (network 'NONE') the generator ends at the
\* consumer's first pull with nothing yielded, no request to either endpoint
\* and no read of the chain height, for every start block and transform.
C3_DisabledNoCalls ==
    network = "NONE" =>
        /\ trace = <<>>
        /\ pc \in {"Created", "Done"}
        /\ pulls > 0 => pc = "Done"
        /\ currentBlock = -1

C3_Witness == network = "NONE" /\ pc = "Done" /\ pulls = 1 /\ chainHeight > startBlock

(* ---------------- C4 ---------------- *)
\* C4: when the params response has no entry with exactly the index of a
\* listed event, or an entry without parameters, getEvents fails with an error
\* that carries the index of that event (the first such event of the page),
\* and none of the events of that page is returned: nothing follows the
\* response in the history.
C4_MissingParamsFails ==
    \A i \in 1..Len(trace) :
        (trace[i].op = "paramsResult" /\ trace[i].defect.kind # "none") =>
            /\ i = Len(trace)
            /\ pc = "Failed"
            /\ error.kind = "missingParams"
            /\ trace[i - 1].op = "params"
            /\ error.index = trace[i - 1].event_index[trace[i].defect.pos]

\* A page fetch failed on its second event: the first one had its parameters.
C4_Witness ==
    /\ pc = "Failed"
    /\ error.kind = "missingParams"
    /\ call.row = SUBSCAN_MAX_ROWS
    /\ trace[Len(trace)].defect.pos = 2
    /\ error.index = listed[2].event_index
    /\ ~ParamsMissing(eventsParameters, listed[1].event_index)

(* ---------------- C5 ---------------- *)
\* The index of the event a yielded item was made from.
IndexOf(v) == <<v.block, v.extrinsicHash - v.block * 10>>

\* C5: without a transform every yielded event carries a non-empty parameter
\* list, the one the provider holds for exactly its own index; and no event of
\* a fetched page is skipped: the items yielded for a page are the events
\* asked for in the params request, in order, all of them once the page is
\* done.
C5_YieldedHaveParams ==
    LET lp == ListPos
    IN
        transform = "none" =>
            /\ \A i \in 1..Len(trace) :
                trace[i].op = "yield" =>
                    /\ Len(trace[i].value.params) > 0
                    /\ trace[i].value.params = ProviderParams(IndexOf(trace[i].value))
            /\ \A k \in 1..Len(lp) :
                LET ys == SegOps(lp, k, "yield")
                    first == lp[k] + 4
                IN  ys # {} =>
                      /\ IsPageFetch(CallOf(lp, k))
                      /\ trace[lp[k] + 2].op = "params"
                      /\ trace[lp[k] + 3].op = "paramsResult"
                      /\ trace[lp[k] + 3].defect.kind = "none"
                      /\ ys = first..(first + Cardinality(ys) - 1)
                      /\ Cardinality(ys) <= Len(trace[lp[k] + 2].event_index)
                      /\ \A i \in ys :
                            IndexOf(trace[i].value) =
                                trace[lp[k] + 2].event_index[i - first + 1]
                      /\ SegOps(lp, k, "sleep") # {} =>
                            Cardinality(ys) = Len(trace[lp[k] + 2].event_index)

\* A whole page was yielded and one of its events has two parameters.
C5_Witness ==
    LET ys_ == Yields
    IN
        /\ transform = "none"
        /\ pc = "WaitingInterval"
        /\ Len(ys_) = SUBSCAN_MAX_ROWS
        /\ Len(ys_[2].value.params) = 2

(* ---------------- C6 ---------------- *)
\* C6: the ranges probed are those starting at startBlock + k * 100000 below
\* the height snapshot, for k = 0, 1, ... in ascending order, each once; a
\* walk that ends has probed all of them; with the start block at or above
\* the snapshot no request is made at all.
C6_RangesWalked ==
    LET lp == ListPos
        pr == Probes
    IN
        /\ \A k \in 1..Len(pr) :
            /\ pr[k].fromBlock = startBlock + (k - 1) * 100000
            /\ pr[k].fromBlock < currentBlock
        /\ \A k \in 1..Len(lp) :
            \E j \in 1..Len(pr) : CallOf(lp, k).fromBlock = pr[j].fromBlock
        /\ (pc = "Done" /\ network # "NONE") =>
            startBlock + Len(pr) * 100000 >= currentBlock
        /\ (currentBlock # -1 /\ startBlock >= currentBlock) =>
            /\ pc = "Done"
            /\ ~HasOp("list")
            /\ ~HasOp("params")

\* From block 0 with height 150000 the two ranges at 0 and 100000 were walked.
C6_Witness ==
    LET pr == Probes
    IN
        /\ pc = "Done"
        /\ startBlock = 0
        /\ currentBlock = 150000
        /\ Len(pr) = 2
        /\ pr[1].toBlock = 100000
        /\ pr[2].fromBlock = 100000
        /\ pr[2].toBlock = 200000

\* A walk that starts at the height: the height was read and nothing else.
C6_WitnessEmpty ==
    pc = "Done" /\ network # "NONE" /\ startBlock >= currentBlock /\ Len(trace) = 2

(* ---------------- C7 ---------------- *)
\* C7 as stated: between any two getEvents calls of the walker a wait of the
\* fixed interval takes place.
C7_WaitBetweenFetches ==
    LET lp == ListPos
    IN
        \A k \in 1..(Len(lp) - 1) :
            \E i \in SegOps(lp, k, "sleep") : trace[i].ms = QUERY_INTERVAL_MS

\* A call of the walker that its loop follows with a wait: a probe that
\* reported count zero, or a page fetch that returned a list of events.
WaitsAfter(lp, k) ==
    IF IsProbe(CallOf(lp, k)) THEN ResultOf(lp, k).count = 0
    ELSE ResultOf(lp, k).rows # -1

\* C7 amended: a wait of 1000 ms takes place after every probe that reported
\* count zero and after every page fetch that returned a list of events (once
\* the events are yielded), exactly one before the walker's next call; a probe
\* that reported a nonzero count, and a page fetch that returned no list, are
\* followed by the next call with no wait in between.
C7_WaitPerLoopBody ==
    LET lp == ListPos
    IN
        /\ \A i \in 1..Len(trace) : trace[i].op = "sleep" => trace[i].ms = 1000
        /\ \A k \in 1..(Len(lp) - 1) :
            /\ Answered(lp, k)
            /\ Cardinality(SegOps(lp, k, "sleep")) = IF WaitsAfter(lp, k) THEN 1 ELSE 0
            /\ WaitsAfter(lp, k) => SegOps(lp, k, "sleep") = {lp[k + 1] - 1}
        /\ (pc = "Done" /\ Len(lp) > 0) =>
            /\ trace[Len(trace)].op = "sleep" <=> WaitsAfter(lp, Len(lp))
            /\ Cardinality(SegOps(lp, Len(lp), "sleep")) <= 1

\* A probe that found events was followed at once by the fetch of the page,
\* and the wait came after the page was yielded.
C7_Witness ==
    LET lp == ListPos
    IN
        /\ pc = "WaitingInterval"
        /\ Len(lp) = 2
        /\ ResultOf(lp, 1).count > 0
        /\ SegOps(lp, 1, "sleep") = {}
        /\ SegOps(lp, 2, "yield") # {}

\* A page fetch that returned no list was followed at once by the next call.
C7_WitnessNoList ==
    LET lp == ListPos
    IN
        \E k \in 1..(Len(lp) - 1) :
            /\ IsPageFetch(CallOf(lp, k))
            /\ ResultOf(lp, k).rows = -1
            /\ SegOps(lp, k, "sleep") = {}

(* ---------------- C8 ---------------- *)
\* C8: the chain height is read once, before the first probe, and that
\* snapshot bounds the walk whatever the chain does meanwhile: the history
\* has one height read, ahead of every call; every range probed starts below
\* the value read; a walk that ends stops at the first range boundary at or
\* above the value read, even when the chain is higher by then.
C8_HeightSnapshot ==
    LET lp == ListPos
        pr == Probes
    IN
        /\ \A i \in 1..Len(trace) : trace[i].op = "height" => i = 1
        /\ \A i \in 1..Len(trace) : trace[i].op = "heightResult" => i = 2
        /\ (Len(trace) >= 1 /\ network # "NONE") => trace[1].op = "height"
        /\ (pulls > 0 /\ network # "NONE") => Len(trace) >= 1
        /\ Len(lp) > 0 =>
            /\ trace[2].op = "heightResult"
            /\ currentBlock = trace[2].value
            /\ \A k \in 1..Len(pr) : pr[k].fromBlock < trace[2].value
        /\ (pc = "Done" /\ network # "NONE") =>
            /\ trace[2].op = "heightResult"
            /\ startBlock + Len(pr) * BLOCK_RANGE_SIZE >= trace[2].value
            /\ Len(pr) > 0 =>
                  startBlock + (Len(pr) - 1) * BLOCK_RANGE_SIZE < trace[2].value

\* The chain grew past a range boundary during the walk, and the walk ended
\* without the range a second read of the height would have added.
C8_Witness ==
    LET pr == Probes
    IN
        /\ pc = "Done"
        /\ Len(pr) > 0
        /\ chainHeight > currentBlock
        /\ startBlock + Len(pr) * BLOCK_RANGE_SIZE < chainHeight

(* ---------------- C9 ---------------- *)
\* C9 as stated: no range requested covers, and no yielded event belongs to,
\* a block above the height snapshot.
C9_NothingAboveSnapshot ==
    LET lp == ListPos
    IN
        /\ \A k \in 1..Len(lp) : CallOf(lp, k).toBlock <= currentBlock
        /\ \A i \in 1..Len(trace) :
            trace[i].op = "yield" => trace[i].value.block <= currentBlock

\* C9 amended: every range requested starts below the height snapshot H and
\* ends 100000 blocks later, so it can reach beyond H by less than 100000
\* blocks (the last range of the walk does, unless H is its end); every
\* yielded event belongs to a block of the range requested by its page fetch,
\* so to a block below H + 100000, which can be a block produced after the
\* snapshot.
C9_RangesStartBelowSnapshot ==
    LET lp == ListPos
    IN
        /\ \A k \in 1..Len(lp) :
            /\ CallOf(lp, k).fromBlock < currentBlock
            /\ CallOf(lp, k).toBlock = CallOf(lp, k).fromBlock + 100000
            /\ CallOf(lp, k).toBlock < currentBlock + 100000
            /\ \A i \in SegOps(lp, k, "yield") :
                /\ trace[i].value.block >= CallOf(lp, k).fromBlock
                /\ trace[i].value.block <= CallOf(lp, k).toBlock
                /\ trace[i].value.block < currentBlock + 100000

\* An event of a block produced after the snapshot was yielded.
C9_Witness ==
    LET lp == ListPos
        ys_ == Yields
    IN
        /\ Len(ys_) > 0
        /\ ys_[Len(ys_)].value.block > currentBlock
        /\ chainHeight > currentBlock
        /\ CallOf(lp, Len(lp)).toBlock > currentBlock

(* ---------------- C10 ---------------- *)
IsFailure(e) ==
    \/ e.op = "error" /\ e.at \in {"list", "params"}
    \/ e.op = "paramsResult" /\ e.defect.kind # "none"

\* C10: a failed request to either endpoint, or the missing-parameters
\* condition, at a probe or at a page fetch, ends the sequence with that
\* error: the failure is the last entry of the history (no retry, no later
\* page or range, no further yield), the generator is in its failed state with
\* the error of that failure, and the items yielded before it are still there.
C10_FailureTerminates ==
    \A i \in 1..Len(trace) :
        IsFailure(trace[i]) =>
            /\ i = Len(trace)
            /\ pc = "Failed"
            /\ http = "none"
            /\ error.kind = IF trace[i].op = "error" THEN "http" ELSE "missingParams"

\* A page fetch failed after a page of an earlier fetch had been yielded.
C10_Witness ==
    LET ys_ == Yields
    IN
        /\ pc = "Failed"
        /\ error.kind = "http"
        /\ Len(ys_) >= CountStep
        /\ IsPageFetch(call)
        /\ trace[Len(trace)].op = "error"

\* The probe of the second range failed on the parameters of its event.
C10_WitnessProbe ==
    LET pr == Probes
    IN
        /\ pc = "Failed"
        /\ error.kind = "missingParams"
        /\ IsProbe(call)
        /\ Len(pr) = 2

(* ---------------- C11 ---------------- *)
\* The position in the history of the first item yielded for a call: after the
\* list and params requests, their responses and the transform, if any.
FirstYield(lp, k) == lp[k] + 4 + (IF transform = "none" THEN 0 ELSE 1)

\* The row of its range that a yielded item was made from.
RowOf(v, fb) == (v.block - fb) \div EventGap

\* C11: the items come out range by range, oldest range first, inside a range
\* page by page from the highest page index down, and inside a page in the
\* order of the page after the transform: every item is yielded in the part
\* of the history of a page fetch, before the next call goes out, and is an
\* event of the range and the page of that fetch; of two page fetches the
\* later one is for a later range, or for the same range and a lower page; the
\* items of one fetch are, in order, the leading events of the transform's
\* result on the page that was asked for.
C11_EmissionOrder ==
    LET lp == ListPos
    IN
        /\ \A k \in 1..Len(lp) :
            LET a == CallOf(lp, k)
                ys == SegOps(lp, k, "yield")
                first == FirstYield(lp, k)
            IN  ys # {} =>
                  /\ IsPageFetch(a)
                  /\ ys = first..(first + Cardinality(ys) - 1)
                  /\ LET page_ == ApplyTransform(transform,
                                                trace[lp[k] + 2].event_index)
                     IN  /\ Cardinality(ys) <= Len(page_)
                         /\ \A i \in ys :
                               IndexOf(trace[i].value) = page_[i - first + 1]
                  /\ \A i \in ys :
                        /\ trace[i].value.block >= a.fromBlock
                        /\ trace[i].value.block < a.fromBlock + BLOCK_RANGE_SIZE
                        /\ RowOf(trace[i].value, a.fromBlock) \div SUBSCAN_MAX_ROWS
                              = a.page
        /\ \A k1, k2 \in 1..Len(lp) :
            (k1 < k2 /\ IsPageFetch(CallOf(lp, k1)) /\ IsPageFetch(CallOf(lp, k2))) =>
                \/ CallOf(lp, k1).fromBlock < CallOf(lp, k2).fromBlock
                \/ /\ CallOf(lp, k1).fromBlock = CallOf(lp, k2).fromBlock
                   /\ CallOf(lp, k1).page > CallOf(lp, k2).page

\* A finished walk of two ranges that yielded the two pages of the first range
\* and then the page of the second: the first item is row 100 of range 0 when
\* no transform is given, and the last item is an event of the second range.
C11_Witness ==
    LET lp == ListPos
        ys_ == Yields
    IN
        /\ pc = "Done"
        /\ Len(Probes) = 2
        /\ Len(lp) = 5
        /\ CallOf(lp, 2).page = 1
        /\ SegOps(lp, 2, "yield") # {}
        /\ SegOps(lp, 3, "yield") # {}
        /\ SegOps(lp, 5, "yield") # {}
        /\ transform = "none" =>
            ys_[1].value.block = startBlock + SUBSCAN_MAX_ROWS * EventGap
        /\ ys_[Len(ys_)].value.block >= startBlock + BLOCK_RANGE_SIZE

(* ---------------- C12 ---------------- *)
\* C12: a list response without events, null or an empty list, is followed by
\* no params request in that getEvents call; a list response with events is
\* followed by one params request, which carries the indices of exactly the
\* listed events in their order.
C12_NoEventsNoParams ==
    LET lp == ListPos
    IN
        \A k \in 1..Len(lp) :
            Answered(lp, k) =>
                IF ResultOf(lp, k).rows <= 0
                THEN SegOps(lp, k, "params") = {}
                ELSE /\ SegOps(lp, k, "params") = {lp[k] + 2}
                     /\ trace[lp[k] + 2].event_index =
                          [j \in 1..ResultOf(lp, k).rows |->
                              Row(CallOf(lp, k).fromBlock,
                                  CallOf(lp, k).page * CallOf(lp, k).row + j - 1)
                                  .event_index]

(* ---------------- C13 ---------------- *)
\* The k-th call returned a page to the walker: its params request was
\* answered without a defect.
Returned(lp, k) ==
    /\ lp[k] + 3 <= Len(trace)
    /\ trace[lp[k] + 3].op = "paramsResult"
    /\ trace[lp[k] + 3].defect.kind = "none"

\* C13: the transform is invoked once for every page fetch that returned
\* events and never otherwise (not for a probe, not for a page fetch that
\* returned no events, not when no transform is given); it is handed the whole
\* page as getEvents returned it, before any item of the page is yielded; and
\* the items yielded for the page are the elements of its result, in order,
\* all of them once the page is done.
C13_TransformPerPage ==
    LET lp == ListPos
    IN
        /\ \A k \in 1..Len(lp) :
            LET a == CallOf(lp, k)
                ts == SegOps(lp, k, "transform")
                ys == SegOps(lp, k, "yield")
                due == /\ transform # "none"
                       /\ IsPageFetch(a)
                       /\ Returned(lp, k)
                       /\ ResultOf(lp, k).rows > 0
            IN  /\ ts = IF due THEN {lp[k] + 4} ELSE {}
                /\ due =>
                    LET asked == trace[lp[k] + 2].event_index
                        result == ApplyTransform(transform, asked)
                    IN  /\ trace[lp[k] + 4].n = Len(asked)
                        /\ \A i \in ys : i > lp[k] + 4
                        /\ Cardinality(ys) <= Len(result)
                        /\ \A i \in ys :
                             IndexOf(trace[i].value) = result[i - (lp[k] + 4)]
                        /\ SegOps(lp, k, "sleep") # {} =>
                             Cardinality(ys) = Len(result)
        /\ pc = "AwaitingTransform" =>
            LET asked == trace[Len(trace) - 2].event_index
            IN  /\ Len(events) = Len(asked)
                /\ \A j \in 1..Len(events) :
                      /\ IndexOf(events[j]) = asked[j]
                      /\ events[j].params = ProviderParams(asked[j])

(* ---------------- C14 ---------------- *)
\* C14: parseParams adds to the event the mapping from type tag to value in
\* which the last parameter of a tag wins: its keys are the type tags present
\* in the list, the value of a key is that of the last parameter with that
\* tag, the other fields and the list itself are unchanged, and flattening
\* the flattened event again gives the same event and mapping.
C14_LastWriteWins ==
    pc \in {"Flattened", "Reflattened"} =>
        LET e == events[1]
            p == e.params
            v == trace[1].value
        IN  /\ DOMAIN v.parsedParams = {p[k].type_name : k \in 1..Len(p)}
            /\ \A t \in DOMAIN v.parsedParams :
                  \E k \in 1..Len(p) :
                      /\ p[k].type_name = t
                      /\ p[k].value = v.parsedParams[t]
                      /\ \A j \in (k + 1)..Len(p) : p[j].type_name # t
            /\ v.params = p
            /\ v.block = e.block
            /\ v.blockTimestampMs = e.blockTimestampMs
            /\ v.extrinsicHash = e.extrinsicHash
            /\ pc = "Reflattened" =>
                  /\ trace[2].value.parsedParams = v.parsedParams
                  /\ trace[2].value = v

\* The list [a: 1, a: 2] was flattened, twice, to the mapping a: 2.
C14_Witness ==
    /\ pc = "Reflattened"
    /\ events[1].params = <<[type_name |-> "a", value |-> 1],
                            [type_name |-> "a", value |-> 2]>>
    /\ DOMAIN trace[2].value.parsedParams = {"a"}
    /\ trace[2].value.parsedParams["a"] = 2

(* ---------------- C15 ---------------- *)
\* The entries of the history that may follow an entry at once.
AnswersOf(op) ==
    CASE op = "height" -> {"heightResult", "error"}
      [] op = "list" -> {"listResult", "error"}
      [] op = "params" -> {"paramsResult", "error"}
      [] op = "transform" -> {"yield", "sleep", "error"}
      [] op = "sleep" -> {"list"}
      [] OTHER -> {"height", "heightResult", "list", "listResult", "params",
                   "paramsResult", "transform", "yield", "sleep", "error"}

\* The generator has something in progress: a call or a wait.
Running ==
    pc \in {"AwaitingHeight", "AwaitingCount", "AwaitingPage", "AwaitingTransform",
            "WaitingInterval"}

\* What holds of every state: one thing in progress at a time, and the
\* generator runs only on a pull of the consumer.
C15_OneAtATime ==
    /\ \A i \in 1..(Len(trace) - 1) : trace[i + 1].op \in AnswersOf(trace[i].op)
    /\ http # "none" =>
        /\ pc \in {"AwaitingCount", "AwaitingPage"}
        /\ trace[Len(trace)].op = http
    /\ pc = "WaitingInterval" => trace[Len(trace)].op = "sleep"
    /\ pc = "AwaitingHeight" => trace[Len(trace)].op = "height"
    /\ pc = "Created" => (pulls = 0 /\ trace = <<>>)
    /\ pc = "Yielding" =>
        /\ http = "none"
        /\ trace[Len(trace)].op = "yield"
        /\ pulls = Len(Yields)
    /\ (Running \/ pc \in {"Done", "Failed"}) => pulls = Len(Yields) + 1

\* C15: the generator is one thread of control driven by the consumer: at
\* most one provider call or wait is in progress at a time (each request or
\* wait in the history is over before the next entry), no call goes out while
\* the generator is suspended at a yield or not yet started, and the only step
\* that leaves such a state is a pull of the consumer, so a consumer that stops
\* pulling sees no further call.
C15_SingleThreadLazy ==
    /\ []C15_OneAtATime
    /\ [][(pc \in {"Created", "Yielding"}) => (pulls' = pulls + 1)]_vars

\* The generator is suspended at its second yield: two pulls, no request in
\* flight, the yield is the last entry of the history.
C15_Witness ==
    /\ pc = "Yielding"
    /\ pulls = 2
    /\ Len(Yields) = 2
    /\ http = "none"
    /\ Len(ListPos) = 2

C17_EveryEventOnce ==
    (pc = "Done" /\ ~changed /\ transform = "none") =>
        LET lp == ListPos
        IN  \A k \in 1..Len(lp) :
                IsProbe(CallOf(lp, k)) =>
                    LET fb == CallOf(lp, k).fromBlock
                        C == ResultOf(lp, k).count
                        ys == {i \in 1..Len(trace) :
                                  /\ trace[i].op = "yield"
                                  /\ trace[i].value.block >= fb
                                  /\ trace[i].value.block < fb + BLOCK_RANGE_SIZE}
                    IN  /\ Cardinality(ys) = C
                        /\ \A r \in 0..(C - 1) :
                              Cardinality({i \in ys : IndexOf(trace[i].value)
                                              = Row(fb, r).event_index}) = 1

\* A walk of two ranges with 150 and 50 events ended with 200 items yielded.
C17_Witness ==
    LET lp == ListPos
    IN
        /\ pc = "Done"
        /\ ~changed
        /\ transform = "none"
        /\ Len(Probes) = 2
        /\ ResultOf(lp, 1).count = 3 * CountStep
        /\ ResultOf(lp, 4).count = CountStep
        /\ Len(Yields) = 4 * CountStep

(* ---------------- C18 ---------------- *)
\* C18: every range walked has one count probe (page 0, row 1), made before
\* any page fetch of the range; nothing is yielded for a probe, every item
\* comes from a fetch of a full page; the probe of a range with events asks
\* for the parameters of the one event it lists (row 0 of the range), and when
\* these are missing the walk fails there, with no page of the range fetched.
C18_ProbeOncePerRange ==
    LET lp == ListPos
    IN
        \A k \in 1..Len(lp) :
            LET a == CallOf(lp, k)
            IN  /\ IsProbe(a) \/ IsPageFetch(a)
                /\ IsProbe(a) =>
                    /\ \A j \in 1..Len(lp) : j # k =>
                          (CallOf(lp, j).fromBlock = a.fromBlock =>
                              (j > k /\ IsPageFetch(CallOf(lp, j))))
                    /\ SegOps(lp, k, "yield") = {}
                    /\ SegOps(lp, k, "transform") = {}
                    /\ (Answered(lp, k) /\ ResultOf(lp, k).count > 0) =>
                          /\ ResultOf(lp, k).rows = 1
                          /\ trace[lp[k] + 2].op = "params"
                          /\ trace[lp[k] + 2].event_index =
                                <<Row(a.fromBlock, 0).event_index>>
                    /\ (\E i \in SegOps(lp, k, "paramsResult") :
                            trace[i].defect.kind # "none") =>
                          /\ k = Len(lp)
                          /\ pc = "Failed"
                          /\ error.kind = "missingParams"
                          /\ error.index = Row(a.fromBlock, 0).event_index
                /\ IsPageFetch(a) =>
                    \E j \in 1..(k - 1) :
                        /\ IsProbe(CallOf(lp, j))
                        /\ CallOf(lp, j).fromBlock = a.fromBlock
                /\ SegOps(lp, k, "yield") # {} => IsPageFetch(a)

\* The probe of the second range failed on the parameters of its event, after
\* the page of the first range had been yielded: the last call is that probe.
C18_Witness ==
    LET lp == ListPos
    IN
        /\ pc = "Failed"
        /\ error.kind = "missingParams"
        /\ Len(lp) = 3
        /\ IsProbe(CallOf(lp, 3))
        /\ CallOf(lp, 3).fromBlock = startBlock + BLOCK_RANGE_SIZE
        /\ SegOps(lp, 2, "yield") # {}
        /\ SegOps(lp, 3, "yield") = {}

(* ---------------- C19 ---------------- *)
\* The ranges that start below the height snapshot.
RangesBelow(s, h) ==
    IF h <= s THEN 0 ELSE (h - s + BLOCK_RANGE_SIZE - 1) \div BLOCK_RANGE_SIZE

\* The calls made so far stay within the bound: at most one probe per range
\* below the snapshot, and for a range whose probe counted C events at most
\* ceil(C/100) page fetches.
C19_CallBound ==
    LET lp == ListPos
    IN
        /\ Len(Probes) <= RangesBelow(startBlock, currentBlock)
        /\ \A k \in 1..Len(lp) :
            (IsProbe(CallOf(lp, k)) /\ Answered(lp, k)) =>
                Cardinality({j \in 1..Len(lp) :
                                /\ IsPageFetch(CallOf(lp, j))
                                /\ CallOf(lp, j).fromBlock = CallOf(lp, k).fromBlock})
                    <= (ResultOf(lp, k).count + SUBSCAN_MAX_ROWS - 1)
                           \div SUBSCAN_MAX_ROWS
        /\ \A k \in 1..Len(lp) :
            IsPageFetch(CallOf(lp, k)) =>
                \E j \in 1..(k - 1) :
                    /\ IsProbe(CallOf(lp, j))
                    /\ CallOf(lp, j).fromBlock = CallOf(lp, k).fromBlock

\* C19: when every call, wait and pull returns in the end, the generator
\* reaches its end or fails, and until then it makes at most one probe per
\* range below the snapshot and ceil(count/100) page fetches per range.
C19_Terminates ==
    /\ []C19_CallBound
    /\ <>(pc \in {"Done", "Failed"})

\* A walk that ended after all the calls its bound allows: two probes, and
\* two page fetches and one for their ranges of 150 and 100 events.
C19_Witness ==
    LET lp == ListPos
    IN
        /\ pc = "Done"
        /\ Len(Probes) = RangesBelow(startBlock, currentBlock)
        /\ Len(Probes) = 2
        /\ Len(lp) = 5
        /\ ResultOf(lp, 1).count = 3 * CountStep
        /\ ResultOf(lp, 4).count = 2 * CountStep

(* ---------------- C20 ---------------- *)
\* The items a walk yields for page pg of the range at fb that holds cnt
\* events, as a function of these and of the transform alone.
PageOutput(fb, cnt, t, pg) ==
    LET rows == ListRows(fb, pg, SUBSCAN_MAX_ROWS, cnt)
        data == ParamsData([j \in 1..Len(rows) |-> rows[j].event_index],
                           [pos |-> 0, kind |-> "none"])
        out == ApplyTransform(t, ParseEvents(rows, data).events)
    IN  [j \in 1..Len(out) |-> parseParams(out[j])]

\* The items of the pages pg, pg - 1, ..., 0 of a range.
RECURSIVE RangeOutput(_, _, _, _)
RangeOutput(fb, cnt, t, pg) ==
    IF pg < 0 THEN <<>>
    ELSE PageOutput(fb, cnt, t, pg) \o RangeOutput(fb, cnt, t, pg - 1)

\* The items of a walk from block s under the snapshot h over ranges that
\* hold cnt[fb] events.
RECURSIVE WalkOutput(_, _, _, _)
WalkOutput(s, h, cnt, t) ==
    IF s >= h THEN <<>>
    ELSE RangeOutput(s, cnt[s], t, ExpectedPages(cnt[s]))
             \o WalkOutput(s + BLOCK_RANGE_SIZE, h, cnt, t)

\* The items yielded from position i of the history on.
YieldedFrom(i) ==
    LET rest == SelectSeq(SubSeq(trace, i, Len(trace)), LAMBDA e : e.op = "yield")
    IN  [j \in 1..Len(rest) |-> rest[j].value]

\* C20: the sequence a complete walk yields over unchanged provider data is a
\* function of the start block, the height snapshot, the transform and the
\* data of the ranges alone, so two walks with the same inputs yield the same
\* sequence; and what the walk yields from its k-th range on is what that
\* function gives for the start block startBlock + k * 100000, which is what a
\* walk restarted there yields.
C20_Restartable ==
    (pc = "Done" /\ ~changed /\ network # "NONE") =>
        LET lp == ListPos
            pk == {k \in 1..Len(lp) : IsProbe(CallOf(lp, k))}
            starts == {CallOf(lp, k).fromBlock : k \in pk}
            cnt == [fb \in starts |->
                      ResultOf(lp, CHOOSE k \in pk : CallOf(lp, k).fromBlock = fb).count]
        IN  /\ starts = {startBlock + n * BLOCK_RANGE_SIZE :
                            n \in 0..(RangesBelow(startBlock, currentBlock) - 1)}
            /\ YieldedFrom(1) = WalkOutput(startBlock, currentBlock, cnt, transform)
            /\ \A k \in pk :
                  YieldedFrom(lp[k]) =
                      WalkOutput(CallOf(lp, k).fromBlock, currentBlock, cnt, transform)

\* A complete walk from block 0 under the snapshot 150000 that yielded events
\* of both its ranges.
C20_Witness ==
    LET lp == ListPos
    IN
        /\ pc = "Done"
        /\ ~changed
        /\ startBlock = 0
        /\ currentBlock = 3 * BlockStep
        /\ Len(Probes) = 2
        /\ Len(YieldedFrom(1)) > Len(YieldedFrom(lp[Len(lp)]))
        /\ Len(YieldedFrom(lp[Len(lp)])) > 0

\* A complete walk restarted at the boundary 100000 under the same snapshot:
\* it yielded the events of that one range.
C20_WitnessRestarted ==
    /\ pc = "Done"
    /\ ~changed
    /\ startBlock = BLOCK_RANGE_SIZE
    /\ currentBlock = 3 * BlockStep
    /\ Len(Probes) = 1
    /\ Len(YieldedFrom(1)) > 0

====
